---- MODULE Spec2Model ----
(***************************************************************************)
(* Model of sources/logdog/build.rs: the build script that publishes the   *)
(* variant's logdog configuration under conf/current/logdog.conf and       *)
(* regenerates README.md.                                                  *)
(*                                                                         *)
(* Strings are sequences of tokens; the token "/" is the path separator    *)
(* and every other token is a run of ordinary characters.  Paths are       *)
(* compared by their components, which are computed from the tokens the    *)
(* way std::path does.                                                     *)
(***************************************************************************)
EXTENDS Integers, Sequences, FiniteSets, TLC

\* Number of times cargo runs the build script in one behaviour.
MaxRuns == 2

----------------------------------------------------------------------------
\* Strings and paths

ENV_VARIANT == "VARIANT"

SKIP_README == "SKIP_README"

Sep == "/"

\* Option<T>
None == <<>>

Some(x) == <<x>>

\* The variant identifiers the environment may carry.
Variants == { <<>>, <<"aws-k8s-1.17">>, <<"aws-dev">> }

\* A value of the process environment: unset, set to bytes that are not
\* Unicode, or set to a string.
EnvUnset == [state |-> "unset", val |-> <<>>]

EnvNotUnicode == [state |-> "notunicode", val |-> <<>>]

EnvSet(s) == [state |-> "set", val |-> s]

VariantValues == {EnvUnset, EnvNotUnicode} \cup { EnvSet(v) : v \in Variants }

SkipValues == { EnvUnset, EnvSet(<<>>), EnvSet(<<"1">>) }

\* A mutant of EnvVar: a variable that cannot be read counts as empty.
EnvVarOrDefault(e, name) == [ok |-> TRUE, val |-> e[name].val, err |-> "none"]

\* env::var(name): Ok(value) when the variable is set to valid Unicode.
EnvVar(e, name) ==
    IF e[name].state = "set"
    THEN [ok |-> TRUE, val |-> e[name].val, err |-> "none"]
    ELSE [ok |-> FALSE, val |-> <<>>,
          err |-> IF e[name].state = "unset" THEN "NotPresent" ELSE "NotUnicode"]

\* A mutant of VarOsIsSome: an empty value counts as unset.
VarOsIsSomeNonEmpty(e, name) == e[name].state # "unset" /\ e[name].val # <<>>

\* env::var_os(name).is_some()
VarOsIsSome(e, name) == e[name].state # "unset"

\* A mutant of VariantFilename: a default variant stands in for the given one.
VariantFilenameDefault(variant) == <<"logdog.", "aws-dev", ".conf">>

\* format!("logdog.{}.conf", variant)
VariantFilename(variant) == <<"logdog.">> \o variant \o <<".conf">>

\* PathBuf::from("conf").join(&variant_filename)
ConfPath(filename) == <<"conf", Sep>> \o filename

\* A mutant of LinkTarget: the target is not made relative to conf/current.
LinkTargetSameDir(filename) == filename

\* format!("../{}", variant_filename)
LinkTarget(filename) == <<"..", Sep>> \o filename

Link == <<"conf", Sep, "current", Sep, "logdog.conf">>

\* Path::components: split at separators, dropping empty components.
RECURSIVE SplitPath(_, _, _)
SplitPath(s, cur, acc) ==
    IF s = <<>>
    THEN IF cur = "" THEN acc ELSE Append(acc, cur)
    ELSE IF Head(s) = Sep
         THEN SplitPath(Tail(s), "", IF cur = "" THEN acc ELSE Append(acc, cur))
         ELSE SplitPath(Tail(s), cur \o Head(s), acc)

Components(s) == SplitPath(s, "", <<>>)

\* Walk the components from a directory, ".." stepping to the parent.
RECURSIVE Walk(_, _)
Walk(dir, comps) ==
    IF comps = <<>> THEN dir
    ELSE IF Head(comps) = ".."
         THEN Walk(IF dir = <<>> THEN dir ELSE SubSeq(dir, 1, Len(dir) - 1), Tail(comps))
         ELSE IF Head(comps) = "."
              THEN Walk(dir, Tail(comps))
              ELSE Walk(Append(dir, Head(comps)), Tail(comps))

Parent(comps) == SubSeq(comps, 1, Len(comps) - 1)

\* The file a symbolic link at path link with the given target names, one
\* hop from the link's directory.
ResolveLink(link, target) == Walk(Parent(Components(link)), Components(target))

\* The files the catalog directory may hold.
CatalogUniverse == { Walk(<<>>, Components(ConfPath(VariantFilename(v)))) : v \in Variants }

\* The catalogs a source tree may hold: the file of the variant aws-dev is
\* always there, the others may be missing.
Catalogs ==
    { c \in SUBSET CatalogUniverse :
        Walk(<<>>, Components(ConfPath(VariantFilename(<<"aws-dev">>)))) \in c }

\* A mutant of IsFile: the existence check is skipped.
IsFileAlways(files, path) == TRUE

\* Path::is_file
IsFile(files, path) == Walk(<<>>, Components(path)) \in files

----------------------------------------------------------------------------
\* Directory entries

Absent == [kind |-> "absent", target |-> <<>>]

Symlink(target) == [kind |-> "symlink", target |-> target]

RegularFile == [kind |-> "file", target |-> <<>>]

Directory == [kind |-> "dir", target |-> <<>>]

\* fs::remove_file(&link): the error kind, or "Ok".
RemoveFileResult(dir, entry, fault) ==
    IF dir = "missing" \/ entry.kind = "absent" THEN "NotFound"
    ELSE IF dir = "readonly" THEN "PermissionDenied"
    ELSE IF entry.kind = "dir" THEN "IsADirectory"
    ELSE IF fault THEN "Other"
    ELSE "Ok"

\* symlink(&target, &link): the error kind, or "Ok".
SymlinkResult(dir, entry, fault) ==
    IF dir = "missing" THEN "NotFound"
    ELSE IF entry.kind # "absent" THEN "AlreadyExists"
    ELSE IF dir = "readonly" THEN "PermissionDenied"
    ELSE IF fault THEN "Other"
    ELSE "Ok"

\* A mutant of Tolerated: no removal failure is tolerated.
ToleratedNever(kind) == FALSE

\* e.kind() == io::ErrorKind::NotFound
Tolerated(kind) == kind = "NotFound"

----------------------------------------------------------------------------
\* Process exit

ExitSuccess == 0

ExitFailure == 1

PanicStatus == 101

\* A mutant of ProcessExit: the diagnostic is printed and the function returns.
ProcessExitReturns(code) == [pc |-> "generate_readme", exitCode |-> None]

\* process::exit(code)
ProcessExit(code) == [pc |-> "exited", exitCode |-> Some(code)]

NoDiag == [kind |-> "none", variant |-> <<>>, link |-> <<>>, target |-> <<>>, err |-> "none"]

MissingVariantDiag ==
    [kind |-> "MissingVariant", variant |-> <<>>, link |-> <<>>, target |-> <<>>, err |-> "none"]

NoCatalogFileDiag(v) ==
    [kind |-> "NoCatalogFile", variant |-> v, link |-> <<>>, target |-> <<>>, err |-> "none"]

SymlinkFailedDiag(l, t, e) ==
    [kind |-> "SymlinkFailed", variant |-> <<>>, link |-> l, target |-> t, err |-> e]

PanicDiag(e) ==
    [kind |-> "Panic", variant |-> <<>>, link |-> <<>>, target |-> <<>>, err |-> e]

----------------------------------------------------------------------------
\* README generation

SourceTexts == { "doc" }

TemplateTexts == { "tpl" }

Missing == "missing"

NoReadme == [exists |-> FALSE, bytes |-> <<>>]

StaleReadme == [exists |-> TRUE, bytes |-> <<"stale">>]

\* cargo_readme::generate_readme(root, source, template, true, false, false, true)
GenerateReadme(src, tpl) == <<tpl, src>>

\* A mutant of FileCreate: the file is opened without truncation.
FileCreateKeep(file) == [exists |-> TRUE, bytes |-> file.bytes]

\* File::create("README.md")
FileCreate(file) == [exists |-> TRUE, bytes |-> <<>>]

\* write to a file opened by File::create
FileWrite(file, bytes) == [exists |-> TRUE, bytes |-> file.bytes \o bytes]

----------------------------------------------------------------------------
VARIABLES
    env,         \* the process environment of the build script
    catalog,     \* the regular files below conf/
    source,      \* text of src/main.rs, or Missing
    template,    \* text of README.tpl, or Missing
    currentDir,  \* conf/current: "missing", "writable" or "readonly"
    linkEntry,   \* what is at conf/current/logdog.conf
    readme,      \* README.md
    pc,          \* position of the build script
    exitCode,    \* exit status of the last run, None while it runs
    stderr,      \* the diagnostic printed by the last run
    stdout,      \* directives printed for cargo by the last run
    variant,     \* local of symlink_variant
    target,      \* local of symlink_variant
    content,     \* local of generate_readme
    steps,       \* the operations the current run has performed, in order
    results,     \* the results of remove_file and symlink in the current run
    start,       \* the output artifacts when the current run started
    faulted,     \* a transient I/O fault hit the current run
    prev,        \* the previous run: its artifacts, variant and outcome
    changed,     \* the inputs differ from those of the previous run
    runs         \* number of runs started

vars == <<env, catalog, source, template, currentDir, linkEntry, readme, pc,
          exitCode, stderr, stdout, variant, target, content, steps, results,
          start, faulted, prev, changed, runs>>

inputs == <<env, catalog, source, template>>

locals == <<variant, target, content>>

NoResults == [remove |-> "none", symlink |-> "none"]

Artifacts == [link |-> linkEntry, readme |-> readme]

NoPrev == [ran |-> FALSE, link |-> Absent, readme |-> NoReadme, variant |-> <<>>,
           resolved |-> FALSE, clean |-> FALSE]

Init ==
    /\ env = [n \in {ENV_VARIANT, SKIP_README} |-> EnvUnset]
    /\ catalog = CatalogUniverse
    /\ source = Missing
    /\ template = Missing
    /\ currentDir \in {"missing", "writable", "readonly"}
    /\ linkEntry \in IF currentDir = "missing" THEN {Absent}
                     ELSE {Absent, Directory, RegularFile,
                           Symlink(LinkTarget(VariantFilename(<<"aws-dev">>)))}
    /\ readme \in {NoReadme, StaleReadme}
    /\ pc = "idle"
    /\ exitCode = None
    /\ stderr = NoDiag
    /\ stdout = <<>>
    /\ variant = <<>>
    /\ target = <<>>
    /\ content = <<>>
    /\ steps = <<>>
    /\ results = NoResults
    /\ start = Artifacts
    /\ faulted = FALSE
    /\ prev = NoPrev
    /\ changed = FALSE
    /\ runs = 0

----------------------------------------------------------------------------
\* The resolver has completed in the current run.
ResolverDone == results.symlink = "Ok"

\* cargo runs the build script with an environment and a source tree.
StartBuild(e, cat, src, tpl) ==
    /\ pc \in {"idle", "exited"}
    /\ runs < MaxRuns
    /\ env' = e
    /\ catalog' = cat
    /\ source' = src
    /\ template' = tpl
    /\ changed' = (<<e, cat, src, tpl>> # inputs)
    /\ prev' = IF pc = "exited"
               THEN [ran |-> TRUE, link |-> linkEntry, readme |-> readme,
                     variant |-> variant, resolved |-> ResolverDone,
                     clean |-> ~faulted]
               ELSE prev
    /\ pc' = "symlink_variant"
    /\ exitCode' = None
    /\ stderr' = NoDiag
    /\ stdout' = <<>>
    /\ variant' = <<>>
    /\ target' = <<>>
    /\ content' = <<>>
    /\ steps' = <<>>
    /\ results' = NoResults
    /\ start' = Artifacts
    /\ faulted' = FALSE
    /\ runs' = runs + 1
    /\ UNCHANGED <<currentDir, linkEntry, readme>>

\* symlink_variant, lines 20-29: print the rerun directive and read VARIANT.
ReadVariant ==
    /\ pc = "symlink_variant"
    /\ stdout' = Append(stdout, <<"cargo:rerun-if-env-changed=", ENV_VARIANT>>)
    /\ steps' = Append(steps, "env_var")
    /\ LET r == EnvVar(env, ENV_VARIANT)
           x == ProcessExit(ExitFailure)
       IN IF r.ok
          THEN /\ variant' = r.val
               /\ pc' = "is_file"
               /\ UNCHANGED <<exitCode, stderr>>
          ELSE /\ stderr' = MissingVariantDiag
               /\ pc' = x.pc
               /\ exitCode' = x.exitCode
               /\ UNCHANGED variant
    /\ UNCHANGED <<inputs, currentDir, linkEntry, readme, target, content,
                   results, start, faulted, prev, changed, runs>>

\* symlink_variant, lines 30-42: require conf/logdog.$VARIANT.conf.
CheckCatalog ==
    /\ pc = "is_file"
    /\ steps' = Append(steps, "is_file")
    /\ LET variant_filename == VariantFilename(variant)
           x == ProcessExit(ExitFailure)
       IN IF ~IsFile(catalog, ConfPath(variant_filename))
          THEN /\ stderr' = NoCatalogFileDiag(variant)
               /\ pc' = x.pc
               /\ exitCode' = x.exitCode
               /\ UNCHANGED target
          ELSE /\ target' = LinkTarget(variant_filename)
               /\ pc' = "remove_file"
               /\ UNCHANGED <<exitCode, stderr>>
    /\ UNCHANGED <<inputs, currentDir, linkEntry, readme, stdout, variant,
                   content, results, start, faulted, prev, changed, runs>>

\* symlink_force, lines 59-63, and its caller's error handler, lines 43-50.
RemoveFile(fault) ==
    /\ pc = "remove_file"
    /\ steps' = Append(steps, "remove_file")
    /\ LET r == RemoveFileResult(currentDir, linkEntry, fault)
           x == ProcessExit(ExitFailure)
       IN /\ results' = [results EXCEPT !.remove = r]
          /\ faulted' = (faulted \/ r = "Other")
          /\ linkEntry' = IF r = "Ok" THEN Absent ELSE linkEntry
          /\ IF r = "Ok" \/ Tolerated(r)
             THEN /\ pc' = "symlink"
                  /\ UNCHANGED <<exitCode, stderr>>
             ELSE /\ stderr' = SymlinkFailedDiag(Link, target, r)
                  /\ pc' = x.pc
                  /\ exitCode' = x.exitCode
    /\ UNCHANGED <<inputs, currentDir, readme, stdout, locals, start, prev,
                   changed, runs>>

\* symlink_force, line 65, and its caller's error handler, lines 43-50.
CreateSymlink(fault) ==
    /\ pc = "symlink"
    /\ steps' = Append(steps, "symlink")
    /\ LET r == SymlinkResult(currentDir, linkEntry, fault)
           x == ProcessExit(ExitFailure)
       IN /\ results' = [results EXCEPT !.symlink = r]
          /\ faulted' = (faulted \/ r = "Other")
          /\ IF r = "Ok"
             THEN /\ linkEntry' = Symlink(target)
                  /\ pc' = "generate_readme"
                  /\ UNCHANGED <<exitCode, stderr>>
             ELSE /\ stderr' = SymlinkFailedDiag(Link, target, r)
                  /\ pc' = x.pc
                  /\ exitCode' = x.exitCode
                  /\ UNCHANGED linkEntry
    /\ UNCHANGED <<inputs, currentDir, readme, stdout, locals, start, prev,
                   changed, runs>>

\* The process ends by returning from main.
MainReturns == [pc |-> "exited", exitCode |-> Some(ExitSuccess)]

\* The process ends by a panic of unwrap.
Panics == [pc |-> "exited", exitCode |-> Some(PanicStatus)]

\* generate_readme, lines 71-73: skip when SKIP_README is set.
CheckSkip ==
    /\ pc = "generate_readme"
    /\ steps' = Append(steps, "var_os")
    /\ IF VarOsIsSome(env, SKIP_README)
       THEN /\ pc' = MainReturns.pc
            /\ exitCode' = MainReturns.exitCode
       ELSE /\ pc' = "open_source"
            /\ UNCHANGED exitCode
    /\ UNCHANGED <<inputs, currentDir, linkEntry, readme, stderr, stdout,
                   locals, results, start, faulted, prev, changed, runs>>

\* generate_readme, line 75: File::open("src/main.rs").unwrap()
OpenSource ==
    /\ pc = "open_source"
    /\ steps' = Append(steps, "open_source")
    /\ IF source = Missing
       THEN /\ stderr' = PanicDiag("NotFound")
            /\ pc' = Panics.pc
            /\ exitCode' = Panics.exitCode
       ELSE /\ pc' = "open_template"
            /\ UNCHANGED <<exitCode, stderr>>
    /\ UNCHANGED <<inputs, currentDir, linkEntry, readme, stdout, locals,
                   results, start, faulted, prev, changed, runs>>

\* generate_readme, line 76: File::open("README.tpl").unwrap()
OpenTemplate ==
    /\ pc = "open_template"
    /\ steps' = Append(steps, "open_template")
    /\ IF template = Missing
       THEN /\ stderr' = PanicDiag("NotFound")
            /\ pc' = Panics.pc
            /\ exitCode' = Panics.exitCode
       ELSE /\ pc' = "cargo_readme"
            /\ UNCHANGED <<exitCode, stderr>>
    /\ UNCHANGED <<inputs, currentDir, linkEntry, readme, stdout, locals,
                   results, start, faulted, prev, changed, runs>>

\* generate_readme, lines 78-88: cargo_readme::generate_readme(..).unwrap()
ExtractReadme(fault) ==
    /\ pc = "cargo_readme"
    /\ steps' = Append(steps, "cargo_readme")
    /\ faulted' = (faulted \/ fault)
    /\ IF fault
       THEN /\ stderr' = PanicDiag("Other")
            /\ pc' = Panics.pc
            /\ exitCode' = Panics.exitCode
            /\ UNCHANGED content
       ELSE /\ content' = GenerateReadme(source, template)
            /\ pc' = "create_readme"
            /\ UNCHANGED <<exitCode, stderr>>
    /\ UNCHANGED <<inputs, currentDir, linkEntry, readme, stdout, variant,
                   target, results, start, prev, changed, runs>>

\* generate_readme, line 90: File::create("README.md").unwrap()
CreateReadme(fault) ==
    /\ pc = "create_readme"
    /\ steps' = Append(steps, "create_readme")
    /\ faulted' = (faulted \/ fault)
    /\ IF fault
       THEN /\ stderr' = PanicDiag("Other")
            /\ pc' = Panics.pc
            /\ exitCode' = Panics.exitCode
            /\ UNCHANGED readme
       ELSE /\ readme' = FileCreate(readme)
            /\ pc' = "write_all"
            /\ UNCHANGED <<exitCode, stderr>>
    /\ UNCHANGED <<inputs, currentDir, linkEntry, stdout, locals, results,
                   start, prev, changed, runs>>

\* generate_readme, line 91: readme.write_all(content.as_bytes()).unwrap(),
\* then the return from main.  A failing write leaves the first k parts.
WriteReadme(fault, k) ==
    /\ pc = "write_all"
    /\ steps' = Append(steps, "write_all")
    /\ faulted' = (faulted \/ fault)
    /\ IF fault
       THEN /\ readme' = FileWrite(readme, SubSeq(content, 1, k))
            /\ stderr' = PanicDiag("Other")
            /\ pc' = Panics.pc
            /\ exitCode' = Panics.exitCode
       ELSE /\ readme' = FileWrite(readme, content)
            /\ pc' = MainReturns.pc
            /\ exitCode' = MainReturns.exitCode
            /\ UNCHANGED stderr
    /\ UNCHANGED <<inputs, currentDir, linkEntry, stdout, locals, results,
                   start, prev, changed, runs>>

Next ==
    \/ \E v \in VariantValues, s \in SkipValues, cat \in Catalogs,
          src \in SourceTexts \cup {Missing}, tpl \in TemplateTexts \cup {Missing} :
          StartBuild([n \in {ENV_VARIANT, SKIP_README} |->
                         IF n = ENV_VARIANT THEN v ELSE s], cat, src, tpl)
    \/ ReadVariant
    \/ CheckCatalog
    \/ \E fault \in BOOLEAN : RemoveFile(fault)
    \/ \E fault \in BOOLEAN : CreateSymlink(fault)
    \/ CheckSkip
    \/ OpenSource
    \/ OpenTemplate
    \/ \E fault \in BOOLEAN : ExtractReadme(fault)
    \/ \E fault \in BOOLEAN : CreateReadme(fault)
    \/ \E fault \in BOOLEAN, k \in 0..1 : WriteReadme(fault, k)

Spec == Init /\ [][Next]_vars

----------------------------------------------------------------------------
\* Vocabulary of the properties.  The expected names are written out here
\* and do not go through the operators that model the script.

RECURSIVE Flat(_)
Flat(s) == IF s = <<>> THEN "" ELSE Head(s) \o Flat(Tail(s))

\* conf/logdog.V.conf, by components
CatalogEntry(v) == <<"conf", "logdog." \o Flat(v) \o ".conf">>

\* ../logdog.V.conf
ExpectedTarget(v) == "../logdog." \o Flat(v) \o ".conf"

VariantSet == env[ENV_VARIANT].state = "set"

VariantGiven == env[ENV_VARIANT].val

VariantAbsentOrEmpty ==
    \/ env[ENV_VARIANT].state = "unset"
    \/ env[ENV_VARIANT].state = "set" /\ env[ENV_VARIANT].val = <<>>

SkipPresent == env[SKIP_README].state # "unset"

Running == pc # "idle"

Exited == pc = "exited"

ExitedNonZero == Exited /\ exitCode # None /\ exitCode # Some(0)

GeneratorPcs == {"open_source", "open_template", "cargo_readme", "create_readme", "write_all"}

GeneratorSteps == {"var_os"} \cup GeneratorPcs

AllSteps == <<"env_var", "is_file", "remove_file", "symlink", "var_os",
              "open_source", "open_template", "cargo_readme", "create_readme",
              "write_all">>

Performed(step) == \E i \in 1..Len(steps) : steps[i] = step

\* The canonical link exists, its target is ../logdog.V.conf and one hop from
\* conf/current leads to conf/logdog.V.conf.
LinkPublishes(v) ==
    /\ linkEntry.kind = "symlink"
    /\ Flat(linkEntry.target) = ExpectedTarget(v)
    /\ ResolveLink(Link, linkEntry.target) = CatalogEntry(v)

\* The link path holds nothing that refers to variant v.
NoRemnantOf(v) ==
    \/ linkEntry.kind # "symlink"
    \/ /\ Flat(linkEntry.target) # ExpectedTarget(v)
       /\ ResolveLink(Link, linkEntry.target) # CatalogEntry(v)

\* C1 as stated: whenever VARIANT=V and conf/logdog.V.conf is a file, the
\* resolver succeeds and the link resolves to conf/logdog.V.conf.
C1_AlwaysSucceeds ==
    (Exited /\ VariantSet /\ CatalogEntry(VariantGiven) \in catalog)
        => /\ stderr.kind \notin {"MissingVariant", "NoCatalogFile", "SymlinkFailed"}
           /\ LinkPublishes(VariantGiven)

\* C1 amended: whenever VARIANT=V and conf/logdog.V.conf is a file, the
\* resolver never reports a missing identifier or catalog entry; it aborts
\* with status 1 only because removing the old entry or creating the link
\* failed, and otherwise the link exists with target ../logdog.V.conf, which
\* resolves in one hop to exactly conf/logdog.V.conf.
C1_LinksUnlessFsFails ==
    (Running /\ VariantSet /\ CatalogEntry(VariantGiven) \in catalog)
        => /\ stderr.kind \notin {"MissingVariant", "NoCatalogFile"}
           /\ pc \in GeneratorPcs \cup {"generate_readme"}
                => ResolverDone /\ LinkPublishes(VariantGiven)
           /\ Exited =>
                \/ /\ stderr.kind = "SymlinkFailed"
                   /\ exitCode = Some(1)
                   /\ ~ResolverDone
                   /\ \/ results.remove \notin {"Ok", "NotFound"}
                      \/ results.symlink \notin {"Ok", "none"}
                \/ ResolverDone /\ LinkPublishes(VariantGiven)

C1_Witness ==
    /\ Exited /\ exitCode = Some(0)
    /\ VariantGiven = <<"aws-k8s-1.17">>
    /\ CatalogEntry(VariantGiven) \in catalog
    /\ LinkPublishes(<<"aws-k8s-1.17">>)
    /\ linkEntry # start.link

\* C2: once the resolver has succeeded in a run, the link points to the
\* catalog file of that run's variant, and when the previous run succeeded
\* for a different variant nothing at the link path refers to it any more.
C2_LatestVariantWins ==
    ResolverDone
        => /\ LinkPublishes(variant)
           /\ variant = VariantGiven
           /\ (prev.ran /\ prev.resolved /\ prev.variant # variant)
                => NoRemnantOf(prev.variant)

C2_Witness ==
    /\ Exited /\ ResolverDone
    /\ prev.ran /\ prev.resolved
    /\ prev.variant = <<"aws-dev">>
    /\ prev.link.kind = "symlink"
    /\ Flat(prev.link.target) = ExpectedTarget(<<"aws-dev">>)
    /\ variant = <<"aws-k8s-1.17">>
    /\ LinkPublishes(<<"aws-k8s-1.17">>)

\* C3 as stated: with VARIANT unset or empty the resolver aborts with a
\* non-zero status and the link is neither created, removed nor modified.
C3_AbsentOrEmptyAbortsUntouched ==
    (Running /\ VariantAbsentOrEmpty)
        => /\ pc \in {"symlink_variant", "is_file", "exited"}
           /\ ~Performed("remove_file") /\ ~Performed("symlink")
           /\ linkEntry = start.link
           /\ Exited => ExitedNonZero

\* C3 amended: with VARIANT unset, or empty while conf/logdog..conf is not a
\* file, the resolver aborts with a non-zero status and the link is neither
\* created, removed nor modified; an unset VARIANT ends the run before the
\* catalog is looked at.
C3_AbsentAbortsUntouched ==
    (Running /\ (~VariantSet \/ (VariantGiven = <<>> /\ CatalogEntry(<<>>) \notin catalog)))
        => /\ pc \in {"symlink_variant", "is_file", "exited"}
           /\ ~Performed("remove_file") /\ ~Performed("symlink")
           /\ linkEntry = start.link
           /\ Exited => ExitedNonZero
           /\ ~VariantSet => pc # "is_file" /\ ~Performed("is_file")

C3_Witness ==
    /\ Exited /\ exitCode = Some(1)
    /\ env[ENV_VARIANT] = EnvUnset
    /\ CatalogEntry(<<>>) \in catalog
    /\ start.link.kind = "symlink"
    /\ linkEntry = start.link

\* C4 as stated: an absent or empty identifier always ends in the missing
\* identifier error, and the missing catalog entry error is only given for a
\* non-empty identifier without a catalog file.
C4_DistinctDiagnostics ==
    Exited
        => /\ VariantAbsentOrEmpty => stderr.kind = "MissingVariant"
           /\ stderr.kind = "NoCatalogFile"
                => /\ VariantSet /\ VariantGiven # <<>>
                   /\ CatalogEntry(VariantGiven) \notin catalog

\* C4 amended: an identifier that is absent always ends in the missing
\* identifier error, and the missing catalog entry error is given exactly for
\* an identifier that is set, the empty one included, and has no catalog file;
\* an absent identifier is never reported as a missing catalog entry.
C4_AbsentVersusNoCatalogFile ==
    Exited
        => /\ ~VariantSet => stderr = MissingVariantDiag /\ exitCode = Some(1)
           /\ stderr.kind = "MissingVariant" => ~VariantSet
           /\ stderr.kind = "NoCatalogFile"
                <=> (VariantSet /\ CatalogEntry(VariantGiven) \notin catalog)

C4_Witness ==
    /\ Exited /\ exitCode = Some(1)
    /\ env[ENV_VARIANT] = EnvSet(<<>>)
    /\ stderr = NoCatalogFileDiag(<<>>)

\* C5: when VARIANT names V and conf/logdog.V.conf is not a file, the run
\* ends after the existence check with status 1 and a diagnostic naming V,
\* and the link is as it was when the run started.
C5_MissingCatalogEntryAborts ==
    (Running /\ VariantSet /\ CatalogEntry(VariantGiven) \notin catalog)
        => /\ pc \in {"symlink_variant", "is_file", "exited"}
           /\ linkEntry = start.link
           /\ ~Performed("remove_file") /\ ~Performed("symlink")
           /\ Exited
                => /\ exitCode = Some(1)
                   /\ stderr.kind = "NoCatalogFile"
                   /\ stderr.variant = VariantGiven
                   /\ steps = <<"env_var", "is_file">>

C5_Witness ==
    /\ Exited /\ exitCode = Some(1)
    /\ VariantSet /\ VariantGiven = <<"aws-k8s-1.17">>
    /\ CatalogEntry(VariantGiven) \notin catalog
    /\ stderr.variant = <<"aws-k8s-1.17">>
    /\ prev.ran /\ prev.resolved
    /\ linkEntry = prev.link /\ linkEntry.kind = "symlink"

\* C6 as stated: if a link exists when the run starts, the link path always
\* holds a link to the previous target or to the new variant's file.
C6_NeverAbsent ==
    (Running /\ start.link.kind = "symlink")
        => /\ linkEntry.kind = "symlink"
           /\ \/ linkEntry = start.link
              \/ Flat(linkEntry.target) = ExpectedTarget(variant)

\* C6 amended: if a link exists when the run starts, the link path holds the
\* previous link, or the link to the new variant's catalog file, or nothing;
\* it holds nothing only between the removal and the creation, and after a
\* run that aborted while creating the new link.
C6_AbsentOnlyBetweenRemoveAndCreate ==
    (Running /\ start.link.kind = "symlink")
        => \/ linkEntry = start.link /\ results.remove # "Ok"
           \/ /\ LinkPublishes(variant)
              /\ results.remove = "Ok" /\ results.symlink = "Ok"
           \/ /\ linkEntry.kind = "absent"
              /\ results.remove = "Ok"
              /\ \/ pc = "symlink" /\ results.symlink = "none"
                 \/ /\ Exited /\ exitCode = Some(1)
                    /\ stderr.kind = "SymlinkFailed"
                    /\ results.symlink \notin {"Ok", "none"}

C6_Witness ==
    /\ Exited
    /\ start.link.kind = "symlink"
    /\ linkEntry.kind = "absent"
    /\ stderr.kind = "SymlinkFailed"
    /\ results.remove = "Ok"

\* C7: with SKIP_README present, whatever its value, the generator opens
\* neither src/main.rs nor README.tpl, leaves README.md and the link as they
\* are, and the run that reached it ends with status 0.
C7_SkipLeavesFilesAlone ==
    (Running /\ SkipPresent)
        => /\ pc \notin GeneratorPcs
           /\ \A g \in GeneratorPcs : ~Performed(g)
           /\ readme = start.readme
           /\ content = <<>>
           /\ Performed("var_os")
                => /\ Exited /\ exitCode = Some(0)
                   /\ stderr = NoDiag
                   /\ LinkPublishes(variant)

C7_Witness ==
    /\ Exited /\ exitCode = Some(0)
    /\ env[SKIP_README] = EnvSet(<<>>)
    /\ Performed("var_os")
    /\ source # Missing /\ template # Missing
    /\ readme = StaleReadme

\* The generator ran to its end, or was skipped.
GeneratorCompleted ==
    /\ steps[Len(steps)] = "write_all"
    /\ stderr = NoDiag
    /\ readme = [exists |-> TRUE, bytes |-> content]

GeneratorSkipped == steps[Len(steps)] = "var_os" /\ SkipPresent

\* C8: the run ends with status 0 exactly when the resolver completed and the
\* generator completed or was skipped; every fatal condition ends the run at
\* once with a non-zero status, the operations performed are the ones up to
\* the failing one, and after a resolver abort no generator step has run.
C8_NoPartialSuccess ==
    /\ stderr.kind # "none" => ExitedNonZero
    /\ steps = SubSeq(AllSteps, 1, Len(steps))
    /\ Exited
         => /\ exitCode \in {Some(0), Some(1), Some(101)}
            /\ exitCode = Some(0)
                 <=> (ResolverDone /\ (GeneratorCompleted \/ GeneratorSkipped))
            /\ exitCode # Some(0) => stderr.kind # "none"
            /\ stderr.kind \in {"MissingVariant", "NoCatalogFile", "SymlinkFailed"}
                 => /\ \A g \in GeneratorSteps : ~Performed(g)
                    /\ readme = start.readme
                    /\ ~ResolverDone

C8_Witness ==
    /\ Exited /\ exitCode = Some(1)
    /\ stderr.kind = "SymlinkFailed"
    /\ ~SkipPresent /\ source # Missing /\ template # Missing
    /\ readme = start.readme

\* C9: a second run with the environment and the input files of the first,
\* no transient I/O fault in either, leaves the link and README.md exactly
\* as the first run left them.
C9_SecondRunSameArtifacts ==
    (Exited /\ prev.ran /\ ~changed /\ prev.clean /\ ~faulted)
        => /\ linkEntry = prev.link
           /\ readme = prev.readme

C9_Witness ==
    /\ Exited /\ exitCode = Some(0)
    /\ prev.ran /\ ~changed /\ prev.clean /\ ~faulted
    /\ Performed("write_all")
    /\ linkEntry.kind = "symlink"
    /\ readme.bytes # <<>>
    /\ runs = 2

\* C10: symlink_force removes what is at the link path first; only a removal
\* failure of kind NotFound lets the creation go ahead, any other is returned
\* without a creation attempt, a creation failure is returned too, and each
\* returned error ends the run with status 1.
C10_SymlinkForceErrors ==
    /\ pc = "symlink" => results.remove \in {"Ok", "NotFound"}
    /\ results.symlink # "none" => results.remove \in {"Ok", "NotFound"}
    /\ results.remove \in {"Ok", "NotFound"}
         => pc = "symlink" \/ results.symlink # "none"
    /\ (pc = "symlink" /\ results.remove = "Ok") => linkEntry = Absent
    /\ results.remove \notin {"none", "Ok", "NotFound"}
         => /\ results.symlink = "none" /\ ~Performed("symlink")
            /\ Exited /\ exitCode = Some(1)
            /\ stderr = SymlinkFailedDiag(Link, target, results.remove)
            /\ linkEntry = start.link
    /\ results.symlink \notin {"none", "Ok"}
         => /\ Exited /\ exitCode = Some(1)
            /\ stderr = SymlinkFailedDiag(Link, target, results.symlink)

C10_Witness ==
    /\ results.remove = "NotFound"
    /\ results.symlink = "Ok"
    /\ currentDir = "writable"
    /\ LinkPublishes(variant)
====
